---- MODULE Spec2Model ----
(***************************************************************************)
(* Model of watch_printer_and_restart.py: the dmesg follower loop, the     *)
(* debounce gate, the two-tier restart (TrueNAS API, then Docker) and the  *)
(* pure helpers (token parsing, line classification, container-name        *)
(* resolution).  Strings are sequences of one-character strings; instants  *)
(* and the cooldown are integers (ticks).                                  *)
(***************************************************************************)
EXTENDS Integers, Sequences, FiniteSets, TLC

\* ---------------------------------------------------------------- bounds
MaxTime == 4
MaxCooldown == 2
MaxPipe == 1
MaxNameLen == 2
MaxNames == 2
MaxEnvLen == 3
MaxLineLen == 3

VARIABLES
    BASE_URL, API_KEY, APP_NAME, DOCKER_CONTAINER,  \* configuration, lines 12-15
    tokenEnv,                 \* the raw USB_EVENT_MATCH_ANY_OF environment string
    USB_EVENT_MATCH_ANY_OF,   \* the token list of lines 19-25
    COOLDOWN_SECONDS,         \* line 28
    clock,                    \* what time.time() returns
    proc,                     \* the dmesg subprocess
    pipe,                     \* lines written by dmesg and not yet read
    pc,                       \* position of the single thread of control
    cur,                      \* the raw line being processed
    now, last_trigger_time,   \* locals of follow_dmesg
    names, resolved_name,     \* locals of resolve_container_name / restart_via_docker
    exists, api_ok, docker_ok,\* results of the three backend operations in this run
    reqs,                     \* backend requests issued in the current run, in order
    errors,                   \* terminal error logs of the current or latest run
    verdict,                  \* what the loop did with the line it read last
    lastInvokeAt,             \* instant of the latest handle_printer_event call
    matched,                  \* result of the latest line_matches_printer_event
    exc,                      \* exception propagating out of the try block
    which_dmesg,              \* what shutil.which("dmesg") found (line 229)
    which_docker,             \* what shutil.which("docker") found in this run
    sent                      \* signals sent to the dmesg subprocess, in order

vars == <<BASE_URL, API_KEY, APP_NAME, DOCKER_CONTAINER, tokenEnv,
          USB_EVENT_MATCH_ANY_OF, COOLDOWN_SECONDS, clock, proc, pipe, pc, cur,
          now, last_trigger_time, names, resolved_name, exists, api_ok,
          docker_ok, reqs, errors, verdict, lastInvokeAt, matched, exc,
          which_dmesg, which_docker, sent>>

config == <<BASE_URL, API_KEY, APP_NAME, DOCKER_CONTAINER, tokenEnv,
            USB_EVENT_MATCH_ANY_OF, COOLDOWN_SECONDS>>

\* ---------------------------------------------------------------- strings
\* Optional[str]: <<>> is None, <<s>> is the string s
None == <<>>
Some(s) == <<s>>
\* "no call yet" for the history variable lastInvokeAt
Never == 0 - 1

\* all sequences over S of length lo..hi
SeqsOf(S, lo, hi) == UNION {[1..n -> S] : n \in lo..hi}

IsSpace(c) == c = " "

RECURSIVE LStrip(_)
LStrip(s) == IF s # <<>> /\ IsSpace(Head(s)) THEN LStrip(Tail(s)) ELSE s

RECURSIVE RStrip(_)
RStrip(s) ==
    IF s # <<>> /\ IsSpace(s[Len(s)]) THEN RStrip(SubSeq(s, 1, Len(s) - 1)) ELSE s

\* mutant: the line is used as it was read
NoStrip(s) == s

\* str.strip()
Strip(s) == RStrip(LStrip(s))

\* the Python expression  t in s  for strings
Contains(s, t) ==
    \E i \in 0..(Len(s) - Len(t)) : SubSeq(s, i + 1, i + Len(t)) = t

\* str.split(sep): always at least one part
RECURSIVE Split(_, _)
Split(s, sep) ==
    IF \A i \in 1..Len(s) : s[i] # sep
    THEN <<s>>
    ELSE LET k == CHOOSE i \in 1..Len(s) :
                      s[i] = sep /\ \A j \in 1..(i - 1) : s[j] # sep
         IN <<SubSeq(s, 1, k - 1)>> \o Split(SubSeq(s, k + 1, Len(s)), sep)

RECURSIVE MapStrip(_)
MapStrip(parts) ==
    IF parts = <<>> THEN <<>> ELSE <<Strip(Head(parts))>> \o MapStrip(Tail(parts))

NonEmpty(s) == s # <<>>

\* lines 19-25: [token.strip() for token in env.split(",") if token.strip()]
ParseTokens(env) == SelectSeq(MapStrip(Split(env, ",")), NonEmpty)

\* mutant: every token must occur, instead of any
MatchesEveryToken(l, tokens) ==
    \A i \in 1..Len(tokens) : Contains(l, tokens[i])

\* lines 209-218
line_matches_printer_event(l, tokens) ==
    \E i \in 1..Len(tokens) : Contains(l, tokens[i])

\* mutant: the boundary instant passes the gate
GateOpenAtBoundary(n, last, cooldown) == n - last >= cooldown

\* line 254: the debounce gate
GateOpen(n, last, cooldown) == n - last > cooldown

\* mutant: the stamp is the instant at which handle_printer_event returned
TriggerStampAtReturn(n, last) == clock

\* mutant: the timestamp is never advanced
TriggerStampStale(n, last) == last

\* line 257: last_trigger_time = now
TriggerStamp(n, last) == n

\* ------------------------------------------------- container resolution
\* line 132: names = [line.strip() for line in stdout.splitlines() if line.strip()]
ParseNames(lines) == SelectSeq(MapStrip(lines), NonEmpty)

InList(x, l) == \E i \in 1..Len(l) : l[i] = x

\* mutant: several candidates, the first one is taken
ResolveFirstCandidate(pattern, ns) ==
    IF ns = <<>> THEN None
    ELSE IF InList(pattern, ns) THEN Some(pattern)
    ELSE LET matches == SelectSeq(ns, LAMBDA n : Contains(n, pattern))
         IN IF Len(matches) >= 1 THEN Some(matches[1]) ELSE None

\* mutant: no exact-match step, substring candidates only
ResolveSubstringOnly(pattern, ns) ==
    IF ns = <<>> THEN None
    ELSE LET matches == SelectSeq(ns, LAMBDA n : Contains(n, pattern))
         IN IF Len(matches) = 1 THEN Some(matches[1]) ELSE None

\* mutant: without a single candidate the configured pattern is restarted
ResolvePatternFallback(pattern, ns) ==
    IF InList(pattern, ns) THEN Some(pattern)
    ELSE LET matches == SelectSeq(ns, LAMBDA n : Contains(n, pattern))
         IN IF Len(matches) = 1 THEN Some(matches[1]) ELSE Some(pattern)

\* lines 133-154, given the parsed names
resolve_container_name(pattern, ns) ==
    IF ns = <<>> THEN None
    ELSE IF InList(pattern, ns) THEN Some(pattern)
    ELSE LET matches == SelectSeq(ns, LAMBDA n : Contains(n, pattern))
         IN IF Len(matches) = 1 THEN Some(matches[1]) ELSE None

\* line 163: not resolved_name
Falsy(opt) == opt = None \/ opt[1] = <<>>

\* ---------------------------------------------------------- input universes
NameChars == {"a", "b"}
ContainerNames == SeqsOf(NameChars, 1, MaxNameLen)
\* what docker ps prints: running container names, which are distinct
NameLists ==
    {l \in SeqsOf(ContainerNames, 0, MaxNames) :
        \A i, j \in 1..Len(l) : i # j => l[i] # l[j]}
Patterns == SeqsOf(NameChars, 0, MaxNameLen)
EnvStrings == SeqsOf({"u", "p", ",", " "}, 0, MaxEnvLen)
Lines == SeqsOf({"u", "U", "p", " "}, 0, MaxLineLen)
\* the lines dmesg writes in the whole-program specification
DmesgLines == {<<" ">>, <<"x">>, <<"u", " ">>}
\* the default of line 22, "usblp,USB Bidirectional printer", scaled down
DefaultTokenEnv == <<"u", ",", "p">>
Cooldowns == 0..MaxCooldown

\* ------------------------------------------------------------------- Init
NoRun ==
    /\ names = <<>> /\ resolved_name = None
    /\ exists = "unset" /\ api_ok = "unset" /\ docker_ok = "unset"
    /\ reqs = <<>> /\ errors = 0
    /\ which_docker = "unset"

\* the state when follow_dmesg is entered (module level executed)
Init ==
    /\ \E c \in {<< <<"h">>, <<"k">>, <<"a">>, <<"a">> >>,
                 << <<"h">>, <<"k">>, <<>>, <<>> >>,
                 << <<>>, <<"k">>, <<"a">>, <<"a", "b">> >>} :
          /\ BASE_URL = c[1] /\ API_KEY = c[2] /\ APP_NAME = c[3]
          /\ DOCKER_CONTAINER = c[4]
    /\ tokenEnv = DefaultTokenEnv
    /\ USB_EVENT_MATCH_ANY_OF = ParseTokens(tokenEnv)
    /\ COOLDOWN_SECONDS \in Cooldowns
    /\ clock = 1
    /\ proc = "none"
    /\ pipe = <<>>
    /\ pc = "start"
    /\ cur = [raw |-> <<>>, inRun |-> FALSE]
    /\ now = 0 /\ last_trigger_time = 0
    /\ NoRun
    /\ verdict = "none"
    /\ lastInvokeAt = Never
    /\ matched = FALSE
    /\ exc = "none"
    /\ which_dmesg = "unset" /\ sent = <<>>

\* ------------------------------------------------------------ environment
InRun == pc \in {"handle", "get_wait", "post", "post_wait", "docker",
                 "ps_wait", "restart_wait", "fail"}

\* time passes
Tick ==
    /\ clock < MaxTime
    /\ clock' = clock + 1
    /\ UNCHANGED <<config, proc, pipe, pc, cur, now, last_trigger_time, names,
                   resolved_name, exists, api_ok, docker_ok, reqs, errors,
                   verdict, lastInvokeAt, matched, exc,
                   which_dmesg, which_docker, sent>>

\* dmesg writes one line to its stdout
Emit ==
    /\ proc = "running"
    /\ Len(pipe) < MaxPipe
    /\ \E raw \in DmesgLines :
          pipe' = Append(pipe, [raw |-> raw, inRun |-> InRun])
    /\ UNCHANGED <<config, clock, proc, pc, cur, now, last_trigger_time, names,
                   resolved_name, exists, api_ok, docker_ok, reqs, errors,
                   verdict, lastInvokeAt, matched, exc,
                   which_dmesg, which_docker, sent>>

\* dmesg exits (on its own, or because it was asked to terminate)
DmesgExits ==
    /\ proc = "running"
    /\ proc' = "exited"
    /\ UNCHANGED <<config, clock, pipe, pc, cur, now, last_trigger_time, names,
                   resolved_name, exists, api_ok, docker_ok, reqs, errors,
                   verdict, lastInvokeAt, matched, exc,
                   which_dmesg, which_docker, sent>>

\* ------------------------------------------------------------ follow_dmesg
\* mutant: the test of line 229 is ignored
DmesgAssumed(found) == TRUE

\* line 229: if not shutil.which("dmesg") leaves before anything is launched
DmesgAvailable(found) == found

\* what an observation of shutil.which is recorded as
Which(found) == IF found THEN "found" ELSE "missing"

\* lines 229-241: the tool check, then Popen and last_trigger_time = 0.0
Start(found) ==
    /\ pc = "start"
    /\ which_dmesg' = Which(found)
    /\ IF DmesgAvailable(found)
       THEN /\ proc' = "running"
            /\ last_trigger_time' = 0
            /\ pc' = "read"
       ELSE /\ pc' = "done"
            /\ UNCHANGED <<proc, last_trigger_time>>
    /\ UNCHANGED <<config, clock, pipe, cur, now, names, resolved_name, exists,
                   api_ok, docker_ok, reqs, errors, verdict, lastInvokeAt,
                   matched, exc, which_docker, sent>>

\* lines 229-231: dmesg is not installed
StartNoDmesg == Start(FALSE)

\* lines 229-241: dmesg is installed
StartPopen == Start(TRUE)

\* mutant: the next line is taken while a remediation is still running
LoopHeadAnytime == pc = "read" \/ InRun

\* line 244: the for loop asks for the next line only at its head
LoopHead == pc = "read"

\* lines 244-247: an empty or whitespace-only line is skipped
SkipEmpty ==
    /\ LoopHead /\ pipe # <<>>
    /\ Strip(Head(pipe).raw) = <<>>
    /\ cur' = Head(pipe) /\ pipe' = Tail(pipe)
    /\ verdict' = "empty"
    /\ UNCHANGED <<config, clock, proc, pc, now, last_trigger_time, names,
                   resolved_name, exists, api_ok, docker_ok, reqs, errors,
                   lastInvokeAt, matched, exc,
                   which_dmesg, which_docker, sent>>

\* lines 244-252: a line that matches no token
SkipNoMatch ==
    /\ LoopHead /\ pipe # <<>>
    /\ Strip(Head(pipe).raw) # <<>>
    /\ ~line_matches_printer_event(Strip(Head(pipe).raw), USB_EVENT_MATCH_ANY_OF)
    /\ cur' = Head(pipe) /\ pipe' = Tail(pipe)
    /\ matched' = FALSE
    /\ verdict' = "nomatch"
    /\ UNCHANGED <<config, clock, proc, pc, now, last_trigger_time, names,
                   resolved_name, exists, api_ok, docker_ok, reqs, errors,
                   lastInvokeAt, exc,
                   which_dmesg, which_docker, sent>>

\* lines 244-255: a matching line passes the gate; handle_printer_event is called
GateAccept ==
    /\ LoopHead /\ pipe # <<>>
    /\ Strip(Head(pipe).raw) # <<>>
    /\ line_matches_printer_event(Strip(Head(pipe).raw), USB_EVENT_MATCH_ANY_OF)
    /\ GateOpen(clock, last_trigger_time, COOLDOWN_SECONDS)
    /\ cur' = Head(pipe) /\ pipe' = Tail(pipe)
    /\ matched' = TRUE
    /\ now' = clock
    /\ verdict' = "accepted"
    /\ lastInvokeAt' = clock
    /\ names' = <<>> /\ resolved_name' = None
    /\ exists' = "unset" /\ api_ok' = "unset" /\ docker_ok' = "unset"
    /\ reqs' = <<>> /\ errors' = 0
    /\ which_docker' = "unset"
    /\ pc' = "handle"
    /\ UNCHANGED <<config, clock, proc, last_trigger_time, exc,
                   which_dmesg, sent>>

\* lines 244-259: a matching line during the cooldown is only logged
GateReject ==
    /\ LoopHead /\ pipe # <<>>
    /\ Strip(Head(pipe).raw) # <<>>
    /\ line_matches_printer_event(Strip(Head(pipe).raw), USB_EVENT_MATCH_ANY_OF)
    /\ ~GateOpen(clock, last_trigger_time, COOLDOWN_SECONDS)
    /\ cur' = Head(pipe) /\ pipe' = Tail(pipe)
    /\ matched' = TRUE
    /\ now' = clock
    /\ verdict' = "skipped"
    /\ UNCHANGED <<config, clock, proc, pc, last_trigger_time, names,
                   resolved_name, exists, api_ok, docker_ok, reqs, errors,
                   lastInvokeAt, exc,
                   which_dmesg, which_docker, sent>>

\* line 257: handle_printer_event has returned
AfterHandle ==
    /\ pc = "ret"
    /\ last_trigger_time' = TriggerStamp(now, last_trigger_time)
    /\ pc' = "read"
    /\ names' = <<>> /\ resolved_name' = None
    /\ exists' = "unset" /\ api_ok' = "unset" /\ docker_ok' = "unset"
    /\ reqs' = <<>> /\ which_docker' = "unset"
    /\ UNCHANGED <<config, clock, proc, pipe, cur, now, verdict, lastInvokeAt,
                   matched, exc, errors, which_dmesg, sent>>

\* line 244: the stream is closed and drained; the for loop ends
StreamClosed ==
    /\ pc = "read" /\ pipe = <<>> /\ proc = "exited"
    /\ pc' = "finally"
    /\ UNCHANGED <<config, clock, proc, pipe, cur, now, last_trigger_time,
                   names, resolved_name, exists, api_ok, docker_ok, reqs,
                   errors, verdict, lastInvokeAt, matched, exc,
                   which_dmesg, which_docker, sent>>

\* KeyboardInterrupt (SIGINT) raised anywhere inside the try block
Interrupt ==
    /\ pc \in {"read", "ret"} \/ InRun
    /\ exc' = "KeyboardInterrupt"
    /\ pc' = "finally"
    /\ UNCHANGED <<config, clock, proc, pipe, cur, now, last_trigger_time,
                   names, resolved_name, exists, api_ok, docker_ok, reqs,
                   errors, verdict, lastInvokeAt, matched,
                   which_dmesg, which_docker, sent>>

\* line 261: proc.terminate(); the process may or may not react
Terminate ==
    /\ pc = "finally"
    /\ sent' = Append(sent, "TERM")
    /\ pc' = "wait"
    /\ UNCHANGED <<config, clock, proc, pipe, cur, now, last_trigger_time,
                   names, resolved_name, exists, api_ok, docker_ok, reqs,
                   errors, verdict, lastInvokeAt, matched, exc,
                   which_dmesg, which_docker>>

\* line 263: proc.wait(timeout=5) returns, the process has exited
WaitReturns ==
    /\ pc = "wait" /\ proc = "exited"
    /\ pc' = "done"
    /\ UNCHANGED <<config, clock, proc, pipe, cur, now, last_trigger_time,
                   names, resolved_name, exists, api_ok, docker_ok, reqs,
                   errors, verdict, lastInvokeAt, matched, exc,
                   which_dmesg, which_docker, sent>>

\* mutant: the timeout is swallowed and the process is left alone
TimeoutIgnored(p) == p

\* lines 264-265: except subprocess.TimeoutExpired: proc.kill()
OnTimeoutExpired(p) == "killed"

\* lines 263-265: the 5 s wait times out on a process that is still running
WaitTimeout ==
    /\ pc = "wait" /\ proc = "running"
    /\ proc' = OnTimeoutExpired(proc)
    /\ sent' = IF proc' = "killed" THEN Append(sent, "KILL") ELSE sent
    /\ pc' = "done"
    /\ UNCHANGED <<config, clock, pipe, cur, now, last_trigger_time,
                   names, resolved_name, exists, api_ok, docker_ok, reqs,
                   errors, verdict, lastInvokeAt, matched, exc,
                   which_dmesg, which_docker>>

\* ------------------------------------------------- handle_printer_event
\* mutant: only the base URL is looked at
ApiConfiguredUrlOnly == BASE_URL # <<>>

\* lines 72 and 93: if not BASE_URL or not API_KEY: return False
ApiConfigured == BASE_URL # <<>> /\ API_KEY # <<>>

\* mutant: the restart request is sent whatever the existence check said
AfterExistsAlwaysPost(e) == "post"

\* lines 197-198: the restart request follows only a positive existence check
AfterExists(e) == IF e THEN "post" ELSE "docker"

\* mutant: a failed API restart ends the run in failure, without fallback
AfterApiRestartNoFallback(ok) == IF ok THEN "ret" ELSE "fail"

\* lines 198-201: a successful API restart ends the run, a failed one falls back
AfterApiRestart(ok) == IF ok THEN "ret" ELSE "docker"

\* mutant: a failed Docker restart is tried again
AfterDockerRetry(ok) == IF ok THEN "ret" ELSE "docker"

\* mutant: the run returns silently when the Docker restart failed
AfterDockerSilent(ok) == "ret"

\* lines 201-204: a failed Docker restart leads to the terminal error log
AfterDocker(ok) == IF ok THEN "ret" ELSE "fail"

\* line 197 with APP_NAME empty: the API tier is skipped
HandleNoApp ==
    /\ pc = "handle" /\ APP_NAME = <<>>
    /\ pc' = "docker"
    /\ UNCHANGED <<config, clock, proc, pipe, cur, now, last_trigger_time,
                   names, resolved_name, exists, api_ok, docker_ok, reqs,
                   errors, verdict, lastInvokeAt, matched, exc,
                   which_dmesg, which_docker, sent>>

\* lines 197, 71-73: truenas_app_exists returns False without a request
ExistsUnconfigured ==
    /\ pc = "handle" /\ APP_NAME # <<>> /\ ~ApiConfigured
    /\ exists' = "false"
    /\ pc' = AfterExists(FALSE)
    /\ UNCHANGED <<config, clock, proc, pipe, cur, now, last_trigger_time,
                   names, resolved_name, api_ok, docker_ok, reqs, errors,
                   verdict, lastInvokeAt, matched, exc,
                   which_dmesg, which_docker, sent>>

\* lines 197, 74-76: requests.get(..., timeout=10) is sent
ExistsRequest ==
    /\ pc = "handle" /\ APP_NAME # <<>> /\ ApiConfigured
    /\ reqs' = Append(reqs, "GET")
    /\ pc' = "get_wait"
    /\ UNCHANGED <<config, clock, proc, pipe, cur, now, last_trigger_time,
                   names, resolved_name, exists, api_ok, docker_ok, errors,
                   verdict, lastInvokeAt, matched, exc,
                   which_dmesg, which_docker, sent>>

\* lines 76-84: the server answers: the app is listed, is not listed, or the
\* answer is an error (connection, HTTP status, undecodable body)
ExistsResponds ==
    /\ pc = "get_wait"
    /\ \E answer \in {"listed", "absent", "error"} :
          /\ exists' = IF answer = "listed" THEN "true" ELSE "false"
          /\ pc' = AfterExists(answer = "listed")
    /\ UNCHANGED <<config, clock, proc, pipe, cur, now, last_trigger_time,
                   names, resolved_name, api_ok, docker_ok, reqs, errors,
                   verdict, lastInvokeAt, matched, exc,
                   which_dmesg, which_docker, sent>>

\* lines 76, 82-84: no answer within timeout=10, requests raises Timeout
ExistsTimeout ==
    /\ pc = "get_wait"
    /\ exists' = "false"
    /\ pc' = AfterExists(FALSE)
    /\ UNCHANGED <<config, clock, proc, pipe, cur, now, last_trigger_time,
                   names, resolved_name, api_ok, docker_ok, reqs, errors,
                   verdict, lastInvokeAt, matched, exc,
                   which_dmesg, which_docker, sent>>

\* lines 198, 93-99: restart_via_truenas sends requests.post(..., timeout=30)
ApiRestartRequest ==
    /\ pc = "post"
    /\ IF ApiConfigured
       THEN /\ reqs' = Append(reqs, "POST")
            /\ pc' = "post_wait"
            /\ api_ok' = api_ok
       ELSE /\ reqs' = reqs
            /\ api_ok' = "fail"
            /\ pc' = AfterApiRestart(FALSE)
    /\ UNCHANGED <<config, clock, proc, pipe, cur, now, last_trigger_time,
                   names, resolved_name, exists, docker_ok, errors, verdict,
                   lastInvokeAt, matched, exc,
                   which_dmesg, which_docker, sent>>

\* lines 99-105: the server answers 2xx or with an error
ApiRestartResponds ==
    /\ pc = "post_wait"
    /\ \E ok \in BOOLEAN :
          /\ api_ok' = IF ok THEN "ok" ELSE "fail"
          /\ pc' = AfterApiRestart(ok)
    /\ UNCHANGED <<config, clock, proc, pipe, cur, now, last_trigger_time,
                   names, resolved_name, exists, docker_ok, reqs, errors,
                   verdict, lastInvokeAt, matched, exc,
                   which_dmesg, which_docker, sent>>

\* lines 99, 103-105: no answer within timeout=30
ApiRestartTimeout ==
    /\ pc = "post_wait"
    /\ api_ok' = "fail"
    /\ pc' = AfterApiRestart(FALSE)
    /\ UNCHANGED <<config, clock, proc, pipe, cur, now, last_trigger_time,
                   names, resolved_name, exists, docker_ok, reqs, errors,
                   verdict, lastInvokeAt, matched, exc,
                   which_dmesg, which_docker, sent>>

\* mutant: the test of line 158 is ignored
DockerAssumed(found) == TRUE

\* line 158: if not shutil.which("docker") returns False before any command
DockerAvailable(found) == found

\* lines 201, 157-162, 117-124: the tool check, then
\* subprocess.run(["docker", "ps", ...]), which has no timeout
DockerStart(found) ==
    /\ pc = "docker"
    /\ which_docker' = Which(found)
    /\ IF DockerAvailable(found)
       THEN /\ reqs' = Append(reqs, "PS")
            /\ pc' = "ps_wait"
            /\ docker_ok' = docker_ok
       ELSE /\ reqs' = reqs
            /\ docker_ok' = "fail"
            /\ pc' = AfterDocker(FALSE)
    /\ UNCHANGED <<config, clock, proc, pipe, cur, now, last_trigger_time,
                   names, resolved_name, exists, api_ok, errors, verdict,
                   lastInvokeAt, matched, exc, which_dmesg, sent>>

\* lines 201, 157-160: the docker binary is not installed
DockerMissing == DockerStart(FALSE)

\* lines 201, 158, 162, 117-124: the docker binary is installed
DockerPsRequest == DockerStart(TRUE)

\* lines 125-130, 163-165: docker ps fails
DockerPsFails ==
    /\ pc = "ps_wait"
    /\ resolved_name' = None
    /\ docker_ok' = "fail"
    /\ pc' = AfterDocker(FALSE)
    /\ UNCHANGED <<config, clock, proc, pipe, cur, now, last_trigger_time,
                   names, exists, api_ok, reqs, errors, verdict, lastInvokeAt,
                   matched, exc,
                   which_dmesg, which_docker, sent>>

\* lines 132-154, 162-174: docker ps prints `out`; the name is resolved and,
\* when there is one, subprocess.run(["docker", "restart", name]) is started
DockerPsPrints(out) ==
    LET ns == ParseNames(out)
        r == resolve_container_name(DOCKER_CONTAINER, ns)
    IN
    /\ pc = "ps_wait"
    /\ names' = ns
    /\ resolved_name' = r
    /\ IF Falsy(r)
       THEN /\ docker_ok' = "fail"
            /\ reqs' = reqs
            /\ pc' = AfterDocker(FALSE)
       ELSE /\ docker_ok' = docker_ok
            /\ reqs' = Append(reqs, "RESTART")
            /\ pc' = "restart_wait"
    /\ UNCHANGED <<config, clock, proc, pipe, cur, now, last_trigger_time,
                   exists, api_ok, errors, verdict, lastInvokeAt, matched, exc,
                   which_dmesg, which_docker, sent>>

\* lines 175-185: docker restart exits with status 0 or not
DockerRestartEnds ==
    /\ pc = "restart_wait"
    /\ \E ok \in BOOLEAN :
          /\ docker_ok' = IF ok THEN "ok" ELSE "fail"
          /\ pc' = AfterDocker(ok)
    /\ UNCHANGED <<config, clock, proc, pipe, cur, now, last_trigger_time,
                   names, resolved_name, exists, api_ok, reqs, errors, verdict,
                   lastInvokeAt, matched, exc,
                   which_dmesg, which_docker, sent>>

\* line 204: the terminal error, then handle_printer_event returns
LogFailure ==
    /\ pc = "fail"
    /\ errors' = errors + 1
    /\ pc' = "ret"
    /\ UNCHANGED <<config, clock, proc, pipe, cur, now, last_trigger_time,
                   names, resolved_name, exists, api_ok, docker_ok, reqs,
                   verdict, lastInvokeAt, matched, exc,
                   which_dmesg, which_docker, sent>>

\* the listings docker ps prints in the whole-program specification
SomeNameLists ==
    {<<>>, << <<"a">>, <<"a", "b">> >>, << <<"b", "a">> >>,
     << <<"a", "b">>, <<"b", "a">> >>, << <<"b">> >>}

DockerPsLoop == \E out \in SomeNameLists : DockerPsPrints(out)
DockerPsAny == \E out \in NameLists : DockerPsPrints(out)

\* one run of handle_printer_event, but for the docker ps listing
HandleSteps ==
    \/ HandleNoApp \/ ExistsUnconfigured \/ ExistsRequest
    \/ ExistsResponds \/ ExistsTimeout
    \/ ApiRestartRequest \/ ApiRestartResponds \/ ApiRestartTimeout
    \/ DockerMissing \/ DockerPsRequest \/ DockerPsFails
    \/ DockerRestartEnds \/ LogFailure

LoopSteps ==
    \/ StartNoDmesg \/ StartPopen
    \/ SkipEmpty \/ SkipNoMatch \/ GateAccept \/ GateReject \/ AfterHandle
    \/ StreamClosed \/ Interrupt \/ Terminate \/ WaitReturns \/ WaitTimeout

Next ==
    \/ Tick \/ Emit \/ DmesgExits
    \/ LoopSteps \/ HandleSteps \/ DockerPsLoop

Spec == Init /\ [][Next]_vars

\* the scheduling of the single thread: a step of the program that is enabled
\* is eventually taken, and the timeouts of requests.get/post do expire; the
\* backends, the operator and the dmesg process owe nothing
ProgramStep ==
    \/ StartPopen \/ SkipEmpty \/ SkipNoMatch \/ GateAccept \/ GateReject
    \/ AfterHandle \/ StreamClosed \/ Terminate \/ WaitReturns \/ WaitTimeout
    \/ HandleNoApp \/ ExistsUnconfigured \/ ExistsRequest \/ ExistsTimeout
    \/ ApiRestartRequest \/ ApiRestartTimeout \/ DockerPsRequest \/ LogFailure

FairSpec == Spec /\ WF_vars(ProgramStep)

\* ------------------------------------- one run of handle_printer_event
\* every API configuration, right after the first matching line passed the gate
InitHandle ==
    /\ BASE_URL \in {<<>>, <<"h">>}
    /\ API_KEY \in {<<>>, <<"k">>}
    /\ APP_NAME \in {<<>>, <<"a">>}
    /\ DOCKER_CONTAINER \in {<<>>, <<"a">>, <<"a", "b">>}
    /\ tokenEnv = DefaultTokenEnv
    /\ USB_EVENT_MATCH_ANY_OF = ParseTokens(tokenEnv)
    /\ COOLDOWN_SECONDS = 0
    /\ clock = 1
    /\ proc = "running"
    /\ pipe = <<>>
    /\ pc = "handle"
    /\ cur = [raw |-> <<"u">>, inRun |-> FALSE]
    /\ now = 1 /\ last_trigger_time = 0
    /\ NoRun
    /\ verdict = "accepted"
    /\ lastInvokeAt = 1
    /\ matched = TRUE
    /\ exc = "none"
    /\ which_dmesg = "found" /\ sent = <<>>

NextHandle == HandleSteps \/ DockerPsLoop

SpecHandle == InitHandle /\ [][NextHandle]_vars

\* --------------------------------------- the Platform-API functions alone
\* every API configuration; handle_printer_event is entered (line 197), or
\* restart_via_truenas is called on its own (line 87)
InitApi ==
    /\ BASE_URL \in {<<>>, <<"h">>}
    /\ API_KEY \in {<<>>, <<"k">>}
    /\ APP_NAME \in {<<>>, <<"a">>}
    /\ DOCKER_CONTAINER \in {<<>>, <<"a">>, <<"a", "b">>}
    /\ tokenEnv = DefaultTokenEnv
    /\ USB_EVENT_MATCH_ANY_OF = ParseTokens(tokenEnv)
    /\ COOLDOWN_SECONDS = 0
    /\ clock = 1
    /\ proc = "running"
    /\ pipe = <<>>
    /\ pc \in {"handle", "post"}
    /\ cur = [raw |-> <<"u">>, inRun |-> FALSE]
    /\ now = 1 /\ last_trigger_time = 0
    /\ NoRun
    /\ verdict = "accepted"
    /\ lastInvokeAt = 1
    /\ matched = TRUE
    /\ exc = "none"
    /\ which_dmesg = "found" /\ sent = <<>>

SpecApi == InitApi /\ [][NextHandle]_vars

\* ------------------------------------------ restart_via_docker, resolution
\* every pattern; the API tier was skipped (APP_NAME empty) and docker ps
\* has been started (line 118)
InitResolve ==
    /\ BASE_URL = <<"h">> /\ API_KEY = <<"k">> /\ APP_NAME = <<>>
    /\ DOCKER_CONTAINER \in Patterns
    /\ tokenEnv = DefaultTokenEnv
    /\ USB_EVENT_MATCH_ANY_OF = ParseTokens(tokenEnv)
    /\ COOLDOWN_SECONDS = 0
    /\ clock = 1
    /\ proc = "running"
    /\ pipe = <<>>
    /\ pc = "ps_wait"
    /\ cur = [raw |-> <<"u">>, inRun |-> FALSE]
    /\ now = 1 /\ last_trigger_time = 0
    /\ names = <<>> /\ resolved_name = None
    /\ exists = "unset" /\ api_ok = "unset" /\ docker_ok = "unset"
    /\ reqs = <<"PS">> /\ errors = 0
    /\ which_docker = "found"
    /\ verdict = "accepted"
    /\ lastInvokeAt = 1
    /\ matched = TRUE
    /\ exc = "none"
    /\ which_dmesg = "found" /\ sent = <<>>

NextResolve == DockerPsAny \/ DockerPsFails \/ DockerRestartEnds \/ LogFailure

SpecResolve == InitResolve /\ [][NextResolve]_vars

\* --------------------------------- token parsing and line classification
\* module level, before lines 19-25 ran, for every value of the variable
InitClassify ==
    /\ BASE_URL = <<>> /\ API_KEY = <<>>
    /\ APP_NAME = <<"a">> /\ DOCKER_CONTAINER = <<"a">>
    /\ tokenEnv \in EnvStrings
    /\ USB_EVENT_MATCH_ANY_OF = <<>>
    /\ COOLDOWN_SECONDS = 0
    /\ clock = 1
    /\ proc = "none"
    /\ pipe = <<>>
    /\ pc = "config"
    /\ cur = [raw |-> <<>>, inRun |-> FALSE]
    /\ now = 0 /\ last_trigger_time = 0
    /\ NoRun
    /\ verdict = "none"
    /\ lastInvokeAt = Never
    /\ matched = FALSE
    /\ exc = "none"
    /\ which_dmesg = "unset" /\ sent = <<>>

\* lines 19-25
LoadTokens ==
    /\ pc = "config"
    /\ USB_EVENT_MATCH_ANY_OF' = ParseTokens(tokenEnv)
    /\ pc' = "classify"
    /\ UNCHANGED <<BASE_URL, API_KEY, APP_NAME, DOCKER_CONTAINER, tokenEnv,
                   COOLDOWN_SECONDS, clock, proc, pipe, cur, now,
                   last_trigger_time, names, resolved_name, exists, api_ok,
                   docker_ok, reqs, errors, verdict, lastInvokeAt, matched, exc,
                   which_dmesg, which_docker, sent>>

\* lines 209-218 applied to a line
Classify ==
    /\ pc = "classify"
    /\ \E l \in Lines :
          /\ cur' = [raw |-> l, inRun |-> FALSE]
          /\ matched' = line_matches_printer_event(l, USB_EVENT_MATCH_ANY_OF)
    /\ pc' = "classified"
    /\ UNCHANGED <<config, clock, proc, pipe, now, last_trigger_time, names,
                   resolved_name, exists, api_ok, docker_ok, reqs, errors,
                   verdict, lastInvokeAt, exc,
                   which_dmesg, which_docker, sent>>

NextClassify == LoadTokens \/ Classify

SpecClassify == InitClassify /\ [][NextClassify]_vars

\* ================================================================ claims
\* vocabulary of the claims, stated without the model's helpers
IsSubstr(t, s) == \E i \in 1..(Len(s) + 1) : \E j \in (i - 1)..Len(s) : SubSeq(s, i, j) = t
Issued(r) == \E i \in 1..Len(reqs) : reqs[i] = r
Before(r1, r2) ==
    \A j \in 1..Len(reqs) : reqs[j] = r2 => \E i \in 1..(j - 1) : reqs[i] = r1
\* the step reads a line that matches a token
ReadsMatch ==
    /\ pc = "read" /\ pipe # <<>>
    /\ cur' = Head(pipe) /\ pipe' = Tail(pipe)
    /\ \E i \in 1..Len(USB_EVENT_MATCH_ANY_OF) :
          IsSubstr(USB_EVENT_MATCH_ANY_OF[i], Strip(Head(pipe).raw))
\* resolve_container_name has looked at a listing in this run
Resolved == Issued("PS") /\ pc \in {"restart_wait", "fail", "ret"}
ExactIn(pattern, ns) == \E i \in 1..Len(ns) : ns[i] = pattern
Containing(pattern, ns) == {i \in 1..Len(ns) : IsSubstr(pattern, ns[i])}

\* C1: a matching line processed less than COOLDOWN_SECONDS after the line
\* that last invoked handle_printer_event does not invoke it: the step only
\* logs the skip, stays in the read loop and issues no backend request.
C1_Debounce ==
    [][(ReadsMatch /\ lastInvokeAt # Never
          /\ clock - lastInvokeAt < COOLDOWN_SECONDS)
        => (verdict' = "skipped" /\ pc' = "read" /\ reqs' = reqs
              /\ lastInvokeAt' = lastInvokeAt)]_vars

C1_Witness ==
    /\ verdict = "skipped" /\ lastInvokeAt # Never
    /\ now > lastInvokeAt /\ now - lastInvokeAt < COOLDOWN_SECONDS

\* C2 (as claimed): with a cooldown configured, a matching line that dmesg
\* wrote while a remediation run was in progress is never accepted by the
\* gate, whatever the run's duration.
C2_SlowRemediation ==
    COOLDOWN_SECONDS > 0 => ~(verdict = "accepted" /\ cur.inRun)

\* C3: a run whose API restart failed, or whose existence check was negative
\* or failed, has gone on to restart_via_docker when it returns, the Docker
\* requests follow the API ones, and a successful Docker restart ends the run
\* without the terminal error.
C3_FallbackOrder ==
    pc = "ret" =>
        /\ (api_ok = "fail" \/ exists = "false") => docker_ok # "unset"
        /\ docker_ok = "ok" => errors = 0 /\ Issued("RESTART")
        /\ Issued("POST") => Before("POST", "PS")
        /\ Issued("GET") => Before("GET", "PS")

C3_Witness ==
    /\ pc = "ret" /\ exists = "true" /\ api_ok = "fail" /\ docker_ok = "ok"
    /\ errors = 0 /\ reqs = <<"GET", "POST", "PS", "RESTART">>

\* C4: the API restart request is issued only after a positive existence
\* check for a non-empty APP_NAME, and after a successful API restart the run
\* has returned without any Docker action.
C4_TerminalAfterSuccess ==
    /\ Issued("POST") =>
          exists = "true" /\ APP_NAME # <<>> /\ Before("GET", "POST")
    /\ api_ok = "ok" =>
          /\ ~Issued("PS") /\ ~Issued("RESTART") /\ docker_ok = "unset"
          /\ pc \in {"ret", "finally", "wait", "done"}

C4_Witness == pc = "ret" /\ api_ok = "ok" /\ reqs = <<"GET", "POST">>

\* C5: a run in which neither tier succeeded returns with exactly one terminal
\* error logged and no exception, and from there the loop goes back to
\* reading lines (unless the operator interrupts the process).
C5_TotalFailure ==
    /\ [](pc = "ret" /\ api_ok # "ok" /\ docker_ok # "ok"
            => errors = 1 /\ exc = "none")
    /\ [][pc = "ret" => \/ pc' = "read" /\ exc' = "none"
                        \/ pc' = "ret" /\ exc' = "none" /\ errors' = errors
                        \/ exc' = "KeyboardInterrupt"]_vars

C5_Witness ==
    /\ pc = "ret" /\ exists = "false" /\ docker_ok = "fail" /\ names # <<>>
    /\ errors = 1 /\ exc = "none" /\ pipe # <<>>

\* C6 (as claimed): every remediation run that starts eventually ends, every
\* backend call being bounded by a timeout.  Refuted under FairSpec by a run
\* blocked in subprocess.run (docker ps or docker restart), which has no
\* timeout: no step of the program is enabled there.
C6_BoundedRemediation == InRun ~> ~InRun

\* C7: when the listing holds no name equal to the pattern and not exactly one
\* name containing it, no docker restart is issued and the tier fails.
C7_NeverGuesses ==
    (Resolved /\ ~ExactIn(DOCKER_CONTAINER, names)
       /\ Cardinality(Containing(DOCKER_CONTAINER, names)) # 1)
    => (~Issued("RESTART") /\ docker_ok = "fail" /\ resolved_name = None)

C7_Witness ==
    /\ Resolved /\ ~ExactIn(DOCKER_CONTAINER, names)
    /\ Cardinality(Containing(DOCKER_CONTAINER, names)) = 2
    /\ docker_ok = "fail" /\ pc = "ret"

\* C8: the resolved name is the pattern when a running name equals it, else
\* the only running name containing it, else none.
C8_Precedence ==
    Resolved =>
        IF ExactIn(DOCKER_CONTAINER, names)
        THEN resolved_name = <<DOCKER_CONTAINER>>
        ELSE IF Cardinality(Containing(DOCKER_CONTAINER, names)) = 1
        THEN \E i \in Containing(DOCKER_CONTAINER, names) :
                resolved_name = <<names[i]>>
        ELSE resolved_name = <<>>

C8_Witness ==
    /\ Resolved /\ ExactIn(DOCKER_CONTAINER, names)
    /\ Cardinality(Containing(DOCKER_CONTAINER, names)) = 2
    /\ resolved_name = <<DOCKER_CONTAINER>> /\ Issued("RESTART")

\* C9: a matching line is accepted iff now - last_trigger_time is strictly
\* greater than the cooldown; at equality it is skipped.
C9_GatePredicate ==
    /\ verdict = "skipped" => ~(now - last_trigger_time > COOLDOWN_SECONDS)
    /\ (verdict = "accepted" /\ (InRun \/ pc = "ret"))
          => now - last_trigger_time > COOLDOWN_SECONDS

C9_Witness ==
    /\ verdict = "skipped" /\ COOLDOWN_SECONDS > 0
    /\ now - last_trigger_time = COOLDOWN_SECONDS

\* C10: the classifier answers true iff some configured token is a contiguous,
\* case-sensitive substring of the line, hence false for no tokens; and no
\* configured token is empty or made of whitespace only.
C10_Classifier ==
    /\ pc = "classified" =>
          (matched <=> \E i \in 1..Len(USB_EVENT_MATCH_ANY_OF) :
                          IsSubstr(USB_EVENT_MATCH_ANY_OF[i], cur.raw))
    /\ (pc = "classified" /\ USB_EVENT_MATCH_ANY_OF = <<>>) => ~matched
    /\ pc # "config" =>
          \A i \in 1..Len(USB_EVENT_MATCH_ANY_OF) :
             \E k \in 1..Len(USB_EVENT_MATCH_ANY_OF[i]) :
                USB_EVENT_MATCH_ANY_OF[i][k] # " "

C10_Witness ==
    /\ pc = "classified" /\ matched /\ Len(USB_EVENT_MATCH_ANY_OF) = 1
    /\ Len(tokenEnv) = 3 /\ tokenEnv[1] = " "
    /\ Len(cur.raw) = 3 /\ cur.raw[1] = "U"

\* how often request r occurs in the request log q
Times(q, r) == Cardinality({i \in 1..Len(q) : q[i] = r})
\* the loop takes the next line off the stream
Consumes == pipe # <<>> /\ pipe' = Tail(pipe) /\ cur' = Head(pipe)
\* a run of handle_printer_event begins
Entering == pc' = "handle" /\ pc # "handle"

\* C11: every line the gate accepts starts exactly one run of
\* handle_printer_event, a run starts for no other reason and only from the
\* loop; within a run each of GET, POST, docker ps and docker restart is issued
\* at most once (the request log only grows inside a run and is cleared only
\* where a run begins or has returned).
C11_ExactlyOnce ==
    [][ /\ (Consumes /\ verdict' = "accepted") <=> Entering
        /\ Entering => pc = "read"
        /\ \A r \in {"GET", "POST", "PS", "RESTART"} : Times(reqs', r) <= 1
        /\ \/ reqs' = reqs
           \/ \E r \in {"GET", "POST", "PS", "RESTART"} :
                 InRun /\ reqs' = Append(reqs, r)
           \/ reqs' = <<>> /\ (Entering \/ pc = "ret") ]_vars

C11_Witness ==
    /\ pc = "ret" /\ reqs = <<"GET", "POST", "PS", "RESTART">>
    /\ api_ok = "fail" /\ docker_ok = "fail" /\ errors = 1

\* C12: with BASE_URL or API_KEY empty, truenas_app_exists and
\* restart_via_truenas answer false and no HTTP request is ever sent; the run
\* goes on to the Docker tier, whose docker ps is then the first request.
C12_Unconfigured ==
    (BASE_URL = <<>> \/ API_KEY = <<>>) =>
        /\ ~Issued("GET") /\ ~Issued("POST")
        /\ pc \notin {"get_wait", "post_wait"}
        /\ exists # "true" /\ api_ok # "ok"
        /\ pc \notin {"handle", "post"} =>
              /\ exists = "false" \/ api_ok = "fail" \/ APP_NAME = <<>>
              /\ pc = "docker" \/ which_docker # "unset"

C12_Witness ==
    /\ BASE_URL # <<>> /\ API_KEY = <<>> /\ APP_NAME # <<>>
    /\ exists = "false" /\ api_ok = "unset"
    /\ pc = "ps_wait" /\ reqs = <<"PS">>

\* C13: when shutil.which("docker") finds nothing, restart_via_docker answers
\* false with neither docker ps nor docker restart issued, and the run goes to
\* the terminal error log and returns; no exception is raised.
C13_ToolMissing ==
    which_docker = "missing" =>
        /\ ~Issued("PS") /\ ~Issued("RESTART")
        /\ names = <<>> /\ resolved_name = None
        /\ docker_ok = "fail"
        /\ pc \in {"fail", "ret"} /\ exc = "none"
        /\ errors = IF pc = "ret" THEN 1 ELSE 0

C13_Witness ==
    /\ which_docker = "missing" /\ pc = "ret" /\ errors = 1
    /\ reqs = <<"GET", "POST">> /\ api_ok = "fail"

\* the positions inside the try block of follow_dmesg
InTry == pc \in {"read", "ret"} \/ InRun

C15_FatalStartup ==
    /\ [](which_dmesg = "missing" =>
             /\ pc = "done" /\ proc = "none" /\ sent = <<>> /\ exc = "none"
             /\ pipe = <<>> /\ cur.raw = <<>> /\ verdict = "none" /\ ~matched
             /\ lastInvokeAt = Never /\ reqs = <<>> /\ errors = 0)
    /\ [][ /\ (proc' # proc /\ proc' = "running") =>
                 pc = "start" /\ proc = "none" /\ which_dmesg' = "found"
           /\ pc' = "start" => pc = "start" ]_vars

C15_Witness ==
    /\ which_dmesg = "missing" /\ pc = "done" /\ proc = "none"
    /\ clock = MaxTime

\* C16: the step that takes a line off the stream begins a run of
\* handle_printer_event iff the line has a character other than white space,
\* some configured token is a substring of it, and clock - last_trigger_time
\* exceeds the cooldown at that instant; a run begins in no other way. A blank
\* line is skipped before the classifier sees it; a line without a token
\* leaves the request log and the cooldown timestamp alone.
C16_TriggerCondition ==
    [][ /\ Entering => Consumes
        /\ Consumes =>
              LET l == Head(pipe).raw
                  blank == \A k \in 1..Len(l) : l[k] = " "
                  hit == \E i \in 1..Len(USB_EVENT_MATCH_ANY_OF) :
                            IsSubstr(USB_EVENT_MATCH_ANY_OF[i], l)
                  open == clock - last_trigger_time > COOLDOWN_SECONDS
              IN  /\ Entering <=> (~blank /\ hit /\ open)
                  /\ blank =>
                        /\ verdict' = "empty" /\ matched' = matched
                        /\ pc' = "read" /\ reqs' = reqs
                  /\ (~blank /\ ~hit) =>
                        /\ verdict' = "nomatch" /\ ~matched'
                        /\ pc' = "read" /\ reqs' = reqs
                        /\ last_trigger_time' = last_trigger_time ]_vars

C16_Witness ==
    /\ pc = "handle" /\ verdict = "accepted"
    /\ cur.raw = <<"u", " ">> /\ last_trigger_time > 0
    /\ now - last_trigger_time > COOLDOWN_SECONDS

\* C17: last_trigger_time changes only on the return of a run started by an
\* accepted line, and becomes the instant at which that line was compared,
\* after a failed run as after a successful one; a line that starts no run
\* leaves it alone. A matching line read no more than the cooldown after that
\* instant is therefore skipped, and a run that begins starts with nothing
\* asked of any backend yet.
C17_StampFrame ==
    [][ /\ last_trigger_time' # last_trigger_time =>
              /\ pc = "ret" /\ pc' = "read" /\ verdict = "accepted"
              /\ last_trigger_time' = lastInvokeAt /\ lastInvokeAt = now
        /\ (pc = "ret" /\ pc' = "read") => last_trigger_time' = lastInvokeAt
        /\ (Consumes /\ ~Entering) => last_trigger_time' = last_trigger_time
        /\ (Consumes /\ matched' /\ verdict' # "nomatch" /\ verdict' # "empty"
              /\ clock - last_trigger_time <= COOLDOWN_SECONDS) =>
              verdict' = "skipped" /\ pc' = "read"
        /\ Entering =>
              /\ reqs' = <<>> /\ names' = <<>> /\ resolved_name' = None
              /\ exists' = "unset" /\ api_ok' = "unset"
              /\ docker_ok' = "unset" /\ which_docker' = "unset" ]_vars

C17_Witness ==
    /\ verdict = "skipped" /\ errors = 1
    /\ last_trigger_time = lastInvokeAt /\ last_trigger_time > 0
    /\ now > last_trigger_time

C19_FirstEvent == verdict = "skipped" => lastInvokeAt # Never

\* C20: a docker restart is issued only for a name that is in the list docker
\* ps printed in the same run and that has DOCKER_CONTAINER as a substring;
\* it is issued by the step that received that list, in a run that had no
\* list and no resolved name before, and every run begins without them.
C20_RestartTarget ==
    /\ [](Issued("RESTART") =>
             /\ Before("PS", "RESTART")
             /\ \E i \in 1..Len(names) :
                   /\ resolved_name = Some(names[i])
                   /\ IsSubstr(DOCKER_CONTAINER, names[i]))
    /\ [][ /\ (Times(reqs', "RESTART") > Times(reqs, "RESTART")) =>
                 /\ pc = "ps_wait" /\ reqs[Len(reqs)] = "PS"
                 /\ names = <<>> /\ resolved_name = None
           /\ Entering => names' = <<>> /\ resolved_name' = None
           /\ (names' # names \/ resolved_name' # resolved_name) =>
                 pc \in {"ps_wait", "ret"} \/ Entering ]_vars

C20_Witness ==
    /\ pc = "restart_wait" /\ DOCKER_CONTAINER = <<>>
    /\ names = << <<"b", "a">> >> /\ resolved_name = Some(<<"b", "a">>)
    /\ last_trigger_time > 0

====
